---- MODULE Spec2Model ----
(***************************************************************************)
(* KickAlerts (src/kickalerts.py): the periodic live-status watcher of a   *)
(* Red-DiscordBot cog.  The model follows the asyncio task structure: one  *)
(* action per await point of the stream checker loop, of                   *)
(* _check_single_streamer and of the operator commands.  Code between two  *)
(* awaits runs without interleaving and is folded into the action that     *)
(* completes the earlier await.                                            *)
(***************************************************************************)
EXTENDS Integers, Sequences, FiniteSets, TLC

\* ---------------------------------------------------------------- bounds
\* Upstream stream (broadcast session) ids are 1..MaxSession.
MaxSession == 2
\* Announcement messages the delivery channel accepts in one behaviour.
MaxMsgs == 2

\* ------------------------------------------------------------- constants
\* Python's None (falsy, like the integer 0 no id ever takes).
None == 0
\* register_guild default of check_interval.
DefaultInterval == 60
\* "Never go below 30s" and the interval command's lower limit.
MinInterval == 30
\* The interval command's upper limit.
MaxInterval == 600
\* Sleep after an error in the loop.
ErrorSleep == 60
\* Sleep when no guild has streamers.
IdleSleep == 60

Guilds == {1, 2}
ChannelIds == {1, 2}
StreamIds == 1..MaxSession
Checkers == {"sched", "force"}
Adders == {"a1", "a2"}
Styles == {"detailed", "minimal"}

\* dict.get(key, default)
DictGet(d, key, default) == IF key \in DOMAIN d THEN d[key] ELSE default

\* ------------------------------------------------------ upstream payloads
\* The "livestream" member of the channel JSON: absent/null, or an object
\* with is_live and id (id may be missing: None).
NoLivestream == [present |-> FALSE, is_live |-> FALSE, id |-> None]

Livestreams ==
    {NoLivestream} \cup
    [present : {TRUE}, is_live : BOOLEAN, id : StreamIds \cup {None}]

\* What session.get can come back with: an HTTP status with a body, a
\* timeout, a client error, any other exception ("error").
Responses ==
    [kind : {"http"}, status : {200}, livestream : Livestreams] \cup
    [kind : {"http"}, status : {404, 500}, livestream : {NoLivestream}] \cup
    [kind : {"timeout", "clienterror", "error"}, status : {None},
     livestream : {NoLivestream}]

\* The answers of an upstream whose streamers are never live.
OfflineResponses ==
    {r \in Responses : ~(r.livestream.present /\ r.livestream.is_live)}

\* _fetch_channel_data returns the JSON body, or None (has = FALSE).
NoData == [has |-> FALSE, livestream |-> NoLivestream]

FetchChannelData(resp) ==
    IF resp.kind = "http" /\ resp.status = 200
    THEN [has |-> TRUE, livestream |-> resp.livestream]
    ELSE NoData

\* A value that may be None where the others are texts: None is <<>>, the
\* text t is <<t>>.
Nothing == <<>>

Just(v) == <<v>>

\* The stream fields of a payload that is not live.
NotLiveFields(is_live) ==
    [is_live |-> is_live, stream_id |-> None, stream_title |-> Nothing,
     viewer_count |-> 0, category |-> Nothing, thumbnail_url |-> Nothing,
     started_at |-> Nothing, language |-> Nothing, is_mature |-> FALSE,
     tags |-> <<>>]

\* The stream fields read from the livestream object.  categories and tags
\* are the lists of their names; thumbnail is its url.
LiveFields(is_live, livestream) ==
    [is_live |-> is_live,
     stream_id |-> DictGet(livestream, "id", None),
     stream_title |-> DictGet(livestream, "session_title", Just("No Title")),
     viewer_count |-> DictGet(livestream, "viewer_count", 0),
     category |->
        IF DictGet(livestream, "categories", <<>>) # <<>>
        THEN Just(livestream.categories[1])
        ELSE IF DictGet(livestream, "category", Nothing) # Nothing
        THEN livestream.category
        ELSE Just("Unknown"),
     thumbnail_url |-> DictGet(livestream, "thumbnail", Nothing),
     started_at |-> DictGet(livestream, "created_at", Nothing),
     language |-> DictGet(livestream, "language", Just("en")),
     is_mature |-> DictGet(livestream, "is_mature", FALSE),
     tags |-> DictGet(livestream, "tags", <<>>)]

\* A parse that reads the stream fields whether the stream is live or not.
ParseStreamInfo_AlwaysReads(data) ==
    LET livestream == data.livestream
        is_live == livestream.present /\ DictGet(livestream, "is_live", FALSE)
    IN  IF livestream.present
        THEN LiveFields(is_live, livestream)
        ELSE NotLiveFields(is_live)

\* _parse_stream_info: is_live and the stream fields (the channel fields of
\* the info, username to banner_url, play no part in a transition).
ParseStreamInfo(data) ==
    LET livestream == data.livestream
        is_live == livestream.present /\ DictGet(livestream, "is_live", FALSE)
    IN  IF is_live /\ livestream.present
        THEN LiveFields(is_live, livestream)
        ELSE NotLiveFields(is_live)

NoInfo == [is_live |-> FALSE, stream_id |-> None]

\* ------------------------------------------------------ persisted config
\* A streamer's entry as kickalert_add writes it.
NewStreamer(channel_id, info) ==
    [channel_id |-> channel_id,
     ping_role_id |-> None,
     custom_message |-> None,
     delete_after_offline |-> FALSE,
     last_message_id |-> None,
     is_live |-> info.is_live,
     last_stream_id |-> info.stream_id]

NoStreamer == NewStreamer(None, NoInfo)

EmptyStreamers == [u \in {} |-> NoStreamer]

\* default_guild of __init__.
DefaultGuild ==
    [streamers |-> EmptyStreamers,
     global_channel_id |-> None,
     check_interval |-> DefaultInterval,
     embed_style |-> "detailed",
     auto_delete |-> FALSE]

\* Python's "a or b" on ids.
Or(a, b) == IF a # None THEN a ELSE b

\* ------------------------------------------------------------------ state
VARIABLES
    store,      \* Config: guild id -> the guild's registered values
    lock,       \* Config's lock of each guild's "streamers" value
    channels,   \* channel ids guild.get_channel still resolves
    msgs,       \* announcement messages ever sent; a message's id is its index
    chk,        \* the _check_single_streamer call of each caller
    loop,       \* _stream_checker_loop (the task cog_load creates)
    force,      \* a running kickalert force command
    adder,      \* running kickalert add commands
    host,       \* the bot's readiness, the cog's _ready event, the HTTP session
    hist,       \* history: each caller's previous check, the went-live
                \* announcements sent so far and those sent more than once,
                \* the parity of the number of cycles the loop has started
    call        \* a call of one of the cog's pure helpers: what it was given
                \* and, once it has returned, its result

vars == <<store, lock, channels, msgs, chk, loop, force, adder, host, hist, call>>

\* The call frame of _check_single_streamer: its arguments (the snapshot its
\* caller read), its locals, and what it has done so far.
IdleFrame ==
    [pc |-> "idle", g |-> None, username |-> "",
     streamer_config |-> NoStreamer, embed_style |-> "detailed",
     auto_delete |-> FALSE, global_channel_id |-> None,
     info |-> NoInfo, channel |-> None, msg |-> None,
     streamers |-> EmptyStreamers, last_msg_id |-> None,
     delete_after |-> FALSE, branch |-> "none",
     sends |-> 0, sent |-> 0, fetched |-> 0, found |-> 0,
     edits |-> 0, edited |-> 0, deletes |-> 0, deleted |-> 0]

\* What is remembered of a finished check.
NoCheck ==
    [g |-> None, username |-> "", info |-> NoInfo, sent |-> 0, branch |-> "none",
     raised |-> FALSE]

Summary(f) ==
    [g |-> f.g, username |-> f.username, info |-> f.info, sent |-> f.sent,
     branch |-> f.branch, raised |-> f.pc = "raised"]

CallCheck(g, username, streamer_config, guild_data) ==
    [IdleFrame EXCEPT
        !.pc = "fetch", !.g = g, !.username = username,
        !.streamer_config = streamer_config,
        !.embed_style = guild_data.embed_style,
        !.auto_delete = guild_data.auto_delete,
        !.global_channel_id = guild_data.global_channel_id]

IdleLoop ==
    [pc |-> "unloaded", all_guilds |-> [g \in Guilds |-> DefaultGuild],
     guilds |-> {}, cur |-> None, todo |-> {}, sleep_time |-> None,
     failed |-> FALSE]

IdleForce ==
    [pc |-> "idle", g |-> None, streamers |-> EmptyStreamers,
     guild_data |-> DefaultGuild, todo |-> {}]

IdleAdder ==
    [pc |-> "idle", g |-> None, username |-> "", channel_id |-> None,
     info |-> NoInfo, reply |-> "none"]

\* No helper call under observation.
NoCall == [fn |-> "none", arg |-> None, out |-> None, done |-> FALSE]

Init ==
    /\ store = [g \in Guilds |-> DefaultGuild]
    /\ lock = [g \in Guilds |-> "free"]
    /\ channels = ChannelIds
    /\ msgs = <<>>
    /\ chk = [p \in Checkers |-> IdleFrame]
    /\ loop = IdleLoop
    /\ force = IdleForce
    /\ adder = [a \in Adders |-> IdleAdder]
    /\ host = [bot_ready |-> FALSE, ready_event |-> FALSE, session |-> "none"]
    /\ hist = [prev |-> [p \in Checkers |-> NoCheck], announced |-> {}, twice |-> {},
               cycle |-> 0]
    /\ call = NoCall

\* ------------------------------------------------- the transition engine
\* Variants of the went-live condition: one that forgets to compare the stream
\* id with the stored one, one that only fires from offline.
WentLive_NoCompare(was_live, is_live, current_stream_id, last_stream_id) ==
    is_live /\ (~was_live \/ current_stream_id # None)

WentLive_FromOfflineOnly(was_live, is_live, current_stream_id, last_stream_id) ==
    is_live /\ ~was_live

\* The three branch conditions of _check_single_streamer.
WentLive(was_live, is_live, current_stream_id, last_stream_id) ==
    is_live /\ (~was_live \/
                (current_stream_id # None /\ current_stream_id # last_stream_id))

WentOffline(was_live, is_live) == ~is_live /\ was_live

\* A still-live test that refreshes whatever the style.
StillLive_AnyStyle(was_live, is_live, embed_style) == is_live /\ was_live

StillLive(was_live, is_live, embed_style) ==
    is_live /\ was_live /\ embed_style = "detailed"

Branch(streamer_config, info, embed_style) ==
    LET was_live == DictGet(streamer_config, "is_live", FALSE)
        last_stream_id == DictGet(streamer_config, "last_stream_id", None)
    IN  IF WentLive(was_live, info.is_live, info.stream_id, last_stream_id)
        THEN "live"
        ELSE IF WentOffline(was_live, info.is_live) THEN "offline"
        ELSE IF StillLive(was_live, info.is_live, embed_style) THEN "refresh"
        ELSE "noop"

\* A channel choice that prefers the guild's global channel.
ChannelIdOf_GlobalFirst(streamer_config, global_channel_id) ==
    Or(global_channel_id, DictGet(streamer_config, "channel_id", None))

\* channel_id = streamer_config.get("channel_id") or global_channel_id
ChannelIdOf(streamer_config, global_channel_id) ==
    Or(DictGet(streamer_config, "channel_id", None), global_channel_id)

\* A save without the "if username in streamers" test, which puts the entry
\* back when it is gone.
SaveLiveState_Unguarded(streamers, username, current_stream_id, msg_id) ==
    (username :> [(IF username \in DOMAIN streamers THEN streamers[username]
                   ELSE NoStreamer)
                  EXCEPT !.is_live = TRUE,
                         !.last_stream_id = current_stream_id,
                         !.last_message_id = msg_id])
    @@ streamers

\* A save that forgets the message id.
SaveLiveState_NoMessage(streamers, username, current_stream_id, msg_id) ==
    IF username \in DOMAIN streamers
    THEN [streamers EXCEPT ![username].is_live = TRUE,
                           ![username].last_stream_id = current_stream_id]
    ELSE streamers

\* "Save state" after a successful send: the body of the async with.
SaveLiveState(streamers, username, current_stream_id, msg_id) ==
    IF username \in DOMAIN streamers
    THEN [streamers EXCEPT ![username].is_live = TRUE,
                           ![username].last_stream_id = current_stream_id,
                           ![username].last_message_id = msg_id]
    ELSE streamers

\* streamers[username]["is_live"] = False, on entering the offline block.
MarkOffline(streamers, username) ==
    [streamers EXCEPT ![username].is_live = FALSE]

\* An offline block that leaves last_message_id as it is.
ClearLastMessage_Skipped(streamers, username) == streamers

\* streamers[username]["last_message_id"] = None, leaving the offline block.
ClearLastMessage(streamers, username) ==
    [streamers EXCEPT ![username].last_message_id = None]

\* The delete/edit branches swapped.
DeleteAfter_Swapped(streamer_config, auto_delete) ==
    ~DictGet(streamer_config, "delete_after_offline", auto_delete)

\* delete_after = streamer_config.get("delete_after_offline", auto_delete)
DeleteAfter(streamer_config, auto_delete) ==
    DictGet(streamer_config, "delete_after_offline", auto_delete)

Return(f, branch) == [f EXCEPT !.pc = "done", !.branch = branch]

\* A check that takes a failed fetch for an offline streamer and stores it.
CheckFetch_FailureMarksOffline(p, R) ==
    /\ chk[p].pc = "fetch"
    /\ \E resp \in R :
         LET f == chk[p]
             data == FetchChannelData(resp)
             info == ParseStreamInfo(data)
             channel_id == ChannelIdOf(f.streamer_config, f.global_channel_id)
             branch == Branch(f.streamer_config, info, f.embed_style)
             g == [f EXCEPT !.info = info, !.channel = channel_id,
                            !.branch = branch]
         IN  /\ chk' = [chk EXCEPT ![p] =
                   IF ~data.has THEN Return(f, "nodata")
                   ELSE IF channel_id = None \/ channel_id \notin channels
                        THEN Return([f EXCEPT !.info = info], "nochannel")
                   ELSE IF branch = "live" THEN [g EXCEPT !.pc = "send"]
                   ELSE IF branch = "offline" THEN [g EXCEPT !.pc = "off_enter"]
                   ELSE IF branch = "refresh" /\
                           DictGet(f.streamer_config, "last_message_id", None) # None
                        THEN [g EXCEPT !.pc = "ref_fetch"]
                   ELSE Return(g, branch)]
             /\ store' = IF ~data.has /\ f.username \in DOMAIN store[f.g].streamers
                         THEN [store EXCEPT ![f.g].streamers[f.username].is_live = FALSE]
                         ELSE store
    /\ UNCHANGED <<lock, channels, msgs, loop, force, adder, host, hist, call>>

\* await self._fetch_channel_data(username) completes; the code runs on to
\* its next await: a return, channel.send, the offline block's lock, or
\* channel.fetch_message of the refresh.  R: what upstream may answer.
CheckFetch(p, R) ==
    /\ chk[p].pc = "fetch"
    /\ \E resp \in R :
         LET f == chk[p]
             data == FetchChannelData(resp)
             info == ParseStreamInfo(data)
             channel_id == ChannelIdOf(f.streamer_config, f.global_channel_id)
             branch == Branch(f.streamer_config, info, f.embed_style)
             g == [f EXCEPT !.info = info, !.channel = channel_id,
                            !.branch = branch]
         IN  chk' = [chk EXCEPT ![p] =
               IF ~data.has THEN Return(f, "nodata")
               ELSE IF channel_id = None \/ channel_id \notin channels
                    THEN Return([f EXCEPT !.info = info], "nochannel")
               ELSE IF branch = "live" THEN [g EXCEPT !.pc = "send"]
               ELSE IF branch = "offline" THEN [g EXCEPT !.pc = "off_enter"]
               ELSE IF branch = "refresh" /\
                       DictGet(f.streamer_config, "last_message_id", None) # None
                    THEN [g EXCEPT !.pc = "ref_fetch"]
               ELSE Return(g, branch)]
    /\ UNCHANGED <<store, lock, channels, msgs, loop, force, adder, host, hist, call>>

NewMessage(f) == [st |-> "live", channel |-> f.channel]

\* The (guild, streamer, stream id) a went-live announcement is for.
Announcement(f) == <<f.g, f.username, f.info.stream_id>>

Announce(h, f) ==
    [h EXCEPT !.announced = @ \cup {Announcement(f)},
              !.twice = IF Announcement(f) \in h.announced
                        THEN @ \cup {Announcement(f)} ELSE @]

\* A send whose failure handlers fall through to the "Save state" block.
CheckSend_SavesOnFailure(p, log) ==
    /\ chk[p].pc = "send"
    /\ \E result \in {"ok", "Forbidden", "HTTPException"} :
         IF result = "ok"
         THEN /\ Len(msgs) < MaxMsgs
              /\ chk[p].channel \in channels
              /\ msgs' = Append(msgs, NewMessage(chk[p]))
              /\ hist' = IF log THEN Announce(hist, chk[p]) ELSE hist
              /\ chk' = [chk EXCEPT ![p].pc = "save",
                                    ![p].msg = Len(msgs) + 1,
                                    ![p].sends = @ + 1, ![p].sent = @ + 1]
         ELSE /\ msgs' = msgs
              /\ hist' = hist
              /\ chk' = [chk EXCEPT ![p].pc = "save", ![p].sends = @ + 1]
    /\ UNCHANGED <<store, lock, channels, loop, force, adder, host, call>>

\* await channel.send(content=content, embed=embed) completes: a message, or
\* discord.Forbidden / discord.HTTPException (logged, nothing written).
\* With log, hist keeps which announcements were sent.
CheckSend(p, log) ==
    /\ chk[p].pc = "send"
    /\ \E result \in {"ok", "Forbidden", "HTTPException"} :
         IF result = "ok"
         THEN /\ Len(msgs) < MaxMsgs
              /\ chk[p].channel \in channels
              /\ msgs' = Append(msgs, NewMessage(chk[p]))
              /\ hist' = IF log THEN Announce(hist, chk[p]) ELSE hist
              /\ chk' = [chk EXCEPT ![p].pc = "save",
                                    ![p].msg = Len(msgs) + 1,
                                    ![p].sends = @ + 1, ![p].sent = @ + 1]
         ELSE /\ msgs' = msgs
              /\ hist' = hist
              /\ chk' = [chk EXCEPT ![p] =
                           Return([@ EXCEPT !.sends = @ + 1], "live")]
    /\ UNCHANGED <<store, lock, channels, loop, force, adder, host, call>>

\* async with self.config.guild(guild).streamers() as streamers: of the
\* went-live branch.  The block holds no await of its own: it takes the
\* lock, reads, mutates and writes back in one step.
CheckSave(p) ==
    /\ chk[p].pc = "save"
    /\ lock[chk[p].g] = "free"
    /\ store' = [store EXCEPT ![chk[p].g].streamers =
                   SaveLiveState(@, chk[p].username, chk[p].info.stream_id,
                                 chk[p].msg)]
    /\ chk' = [chk EXCEPT ![p] = Return(@, "live")]
    /\ UNCHANGED <<lock, channels, msgs, loop, force, adder, host, hist, call>>

\* discord's answer to fetch_message / edit / delete of message id in the
\* channel object the check resolved: "ok" only for a message that exists there.
Exists(id, channel) ==
    /\ id \in 1..Len(msgs)
    /\ msgs[id].st # "deleted"
    /\ msgs[id].channel = channel
    /\ channel \in channels

DiscordErrors == {"NotFound", "Forbidden", "HTTPException"}

\* Leaving the offline block: last_message_id = None, then __aexit__ writes
\* the whole dict back and releases the lock.
ExitOffline(f) ==
    /\ store' = [store EXCEPT ![f.g].streamers =
                   ClearLastMessage(f.streamers, f.username)]
    /\ lock' = [lock EXCEPT ![f.g] = "free"]

\* async with ... streamers() of the went-offline branch: take the lock, read
\* the dict, is_live = False, and run on to await channel.fetch_message, or
\* (no stored message, or the entry is gone) to the end of the block.
CheckOffEnter(p) ==
    /\ chk[p].pc = "off_enter"
    /\ lock[chk[p].g] = "free"
    /\ LET f == chk[p]
           streamers == store[f.g].streamers
       IN  IF f.username \notin DOMAIN streamers
           THEN /\ chk' = [chk EXCEPT ![p] = Return(f, "offline")]
                /\ UNCHANGED <<store, lock>>
           ELSE LET marked == MarkOffline(streamers, f.username)
                    last_msg_id ==
                        DictGet(marked[f.username], "last_message_id", None)
                IN  IF last_msg_id # None /\ f.channel # None
                    THEN /\ chk' = [chk EXCEPT ![p] =
                                [f EXCEPT !.pc = "off_fetch",
                                          !.streamers = marked,
                                          !.last_msg_id = last_msg_id]]
                         /\ lock' = [lock EXCEPT ![f.g] = p]
                         /\ store' = store
                    ELSE /\ ExitOffline([f EXCEPT !.streamers = marked])
                         /\ chk' = [chk EXCEPT ![p] = Return(f, "offline")]
    /\ UNCHANGED <<channels, msgs, loop, force, adder, host, hist, call>>

\* await channel.fetch_message(last_msg_id) of the offline block completes.
CheckOffFetch(p) ==
    /\ chk[p].pc = "off_fetch"
    /\ \E result \in {"ok"} \cup DiscordErrors :
         LET f == [chk[p] EXCEPT !.fetched = @ + 1]
         IN  IF result = "ok"
             THEN /\ Exists(f.last_msg_id, f.channel)
                  /\ chk' = [chk EXCEPT ![p] =
                        [f EXCEPT !.pc = "off_act", !.found = @ + 1,
                                  !.delete_after =
                                      DeleteAfter(f.streamer_config, f.auto_delete)]]
                  /\ UNCHANGED <<store, lock>>
             ELSE /\ ExitOffline(f)
                  /\ chk' = [chk EXCEPT ![p] = Return(f, "offline")]
    /\ UNCHANGED <<channels, msgs, loop, force, adder, host, hist, call>>

\* await old_msg.delete() / await old_msg.edit(content=None, embed=offline_embed)
\* completes; the three discord errors are passed over.
CheckOffAct(p) ==
    /\ chk[p].pc = "off_act"
    /\ \E result \in {"ok"} \cup DiscordErrors :
         LET ok == IF result = "ok" THEN 1 ELSE 0
             f == IF chk[p].delete_after
                  THEN [chk[p] EXCEPT !.deletes = @ + 1, !.deleted = @ + ok]
                  ELSE [chk[p] EXCEPT !.edits = @ + 1, !.edited = @ + ok]
         IN  /\ result = "ok" => Exists(f.last_msg_id, f.channel)
             /\ msgs' = IF result # "ok" THEN msgs
                        ELSE [msgs EXCEPT ![f.last_msg_id].st =
                                IF f.delete_after THEN "deleted" ELSE "offline"]
             /\ ExitOffline(f)
             /\ chk' = [chk EXCEPT ![p] = Return(f, "offline")]
    /\ UNCHANGED <<channels, loop, force, adder, host, hist, call>>

\* await channel.fetch_message(last_msg_id) of the still-live refresh.
CheckRefFetch(p) ==
    /\ chk[p].pc = "ref_fetch"
    /\ \E result \in {"ok"} \cup DiscordErrors :
         LET last_msg_id == DictGet(chk[p].streamer_config, "last_message_id", None)
             f == [chk[p] EXCEPT !.fetched = @ + 1, !.last_msg_id = last_msg_id]
         IN  IF result = "ok"
             THEN /\ Exists(last_msg_id, f.channel)
                  /\ chk' = [chk EXCEPT ![p] =
                               [f EXCEPT !.pc = "ref_edit", !.found = @ + 1]]
             ELSE chk' = [chk EXCEPT ![p] = Return(f, "refresh")]
    /\ UNCHANGED <<store, lock, channels, msgs, loop, force, adder, host, hist, call>>

\* await old_msg.edit(embed=embed) of the refresh.
CheckRefEdit(p) ==
    /\ chk[p].pc = "ref_edit"
    /\ \E result \in {"ok"} \cup DiscordErrors :
         LET f == [chk[p] EXCEPT !.edits = @ + 1,
                                 !.edited = @ + (IF result = "ok" THEN 1 ELSE 0)]
         IN  /\ result = "ok" => Exists(f.last_msg_id, f.channel)
             /\ msgs' = IF result # "ok" THEN msgs
                        ELSE [msgs EXCEPT ![f.last_msg_id].st = "live"]
             /\ chk' = [chk EXCEPT ![p] = Return(f, "refresh")]
    /\ UNCHANGED <<store, lock, channels, loop, force, adder, host, hist, call>>

\* Leaving an async with ... streamers() block on an exception: __aexit__
\* still writes the dict as the block left it and releases the lock.
ExitRaised(f) ==
    /\ store' = [store EXCEPT ![f.g].streamers = f.streamers]
    /\ lock' = [lock EXCEPT ![f.g] = "free"]

\* The awaits of _check_single_streamer, and those of them inside the offline
\* block's async with.
CheckAwaits ==
    {"fetch", "send", "save", "off_enter", "off_fetch", "off_act",
     "ref_fetch", "ref_edit"}

LockedAwaits == {"off_fetch", "off_act"}

\* An exception no except clause of _check_single_streamer names comes out of
\* the current await, or out of the code that follows it up to the next one
\* (after the fetch: the parse, the embed, the placeholder substitution).  It
\* leaves the function; inside the offline block it passes through __aexit__.
CheckRaise(p) ==
    /\ chk[p].pc \in CheckAwaits
    /\ IF chk[p].pc \in LockedAwaits
       THEN ExitRaised(chk[p])
       ELSE UNCHANGED <<store, lock>>
    /\ chk' = [chk EXCEPT ![p].pc = "raised"]
    /\ UNCHANGED <<channels, msgs, loop, force, adder, host, hist, call>>

CheckStep(p, log, R) ==
    \/ CheckFetch(p, R)
    \/ CheckSend(p, log)
    \/ CheckSave(p)
    \/ CheckOffEnter(p)
    \/ CheckOffFetch(p)
    \/ CheckOffAct(p)
    \/ CheckRefFetch(p)
    \/ CheckRefEdit(p)

\* ----------------------------------------------------- the checker loop
Min(S) == CHOOSE x \in S : \A y \in S : x <= y

Max(a, b) == IF a >= b THEN a ELSE b

\* intervals = [g.get("check_interval", 60) for g in all_guilds.values()
\*              if g.get("streamers")]
Intervals(all_guilds) ==
    {DictGet(all_guilds[g], "check_interval", DefaultInterval) :
        g \in {h \in DOMAIN all_guilds : DOMAIN all_guilds[h].streamers # {}}}

\* The largest interval taken instead of the smallest.
SleepTime_Largest(all_guilds) ==
    LET intervals == Intervals(all_guilds)
        sleep_time == IF intervals # {}
                      THEN CHOOSE x \in intervals : \A y \in intervals : x >= y
                      ELSE IdleSleep
    IN  Max(sleep_time, MinInterval)

\* sleep_time = min(intervals) if intervals else 60; max(sleep_time, 30)
SleepTime(all_guilds) ==
    LET intervals == Intervals(all_guilds)
        sleep_time == IF intervals # {} THEN Min(intervals) ELSE IdleSleep
    IN  Max(sleep_time, MinInterval)

\* The two for loops, from wherever they stand to the next await: the next
\* streamer's check (guilds in id order, skipping those without streamers),
\* or, with none left, the sleep computed from the snapshot.
LoopAdvance(l) ==
    LET rest == {g \in l.guilds : DOMAIN l.all_guilds[g].streamers # {}}
    IN  IF l.todo # {}
        THEN \E u \in l.todo :
               /\ loop' = [l EXCEPT !.pc = "check", !.todo = @ \ {u}]
               /\ chk' = [chk EXCEPT !["sched"] =
                     CallCheck(l.cur, u, l.all_guilds[l.cur].streamers[u],
                               l.all_guilds[l.cur])]
        ELSE IF rest # {}
        THEN LET g == Min(rest)
             IN  \E u \in DOMAIN l.all_guilds[g].streamers :
                   /\ loop' = [l EXCEPT
                         !.pc = "check", !.cur = g,
                         !.guilds = {h \in l.guilds : h > g},
                         !.todo = DOMAIN l.all_guilds[g].streamers \ {u}]
                   /\ chk' = [chk EXCEPT !["sched"] =
                         CallCheck(g, u, l.all_guilds[g].streamers[u],
                                   l.all_guilds[g])]
        ELSE /\ loop' = [l EXCEPT !.pc = "sleep", !.cur = None, !.guilds = {},
                                  !.sleep_time = SleepTime(l.all_guilds)]
             /\ chk' = [chk EXCEPT !["sched"] = IdleFrame]

\* cog_load: the session, the task, the _ready event.
CogLoad ==
    /\ loop.pc = "unloaded"
    /\ loop' = [loop EXCEPT !.pc = "waiting"]
    /\ host' = [host EXCEPT !.session = "open", !.ready_event = TRUE]
    /\ UNCHANGED <<store, lock, channels, msgs, chk, force, adder, hist, call>>

\* The bot becomes ready (bot.wait_until_ready returns from then on).
BotReady ==
    /\ ~host.bot_ready
    /\ host' = [host EXCEPT !.bot_ready = TRUE]
    /\ UNCHANGED <<store, lock, channels, msgs, chk, loop, force, adder, hist, call>>

\* A loop that starts its first cycle without the two waits.
CycleDue_NoWait == loop.pc \in {"waiting", "sleep"}

CycleDue ==
    \/ loop.pc = "waiting" /\ host.bot_ready /\ host.ready_event
    \/ loop.pc = "sleep"

\* With count, hist keeps the parity of the cycles started.
Counted(count) == IF count THEN [hist EXCEPT !.cycle = 1 - @] ELSE hist

\* The top of the while loop: all_guilds = await self.config.all_guilds(),
\* then the for loops up to the first check.
SchedCycle(count) ==
    /\ CycleDue
    /\ LoopAdvance([loop EXCEPT !.all_guilds = store, !.guilds = DOMAIN store,
                                !.cur = None, !.todo = {}, !.failed = FALSE])
    /\ hist' = Counted(count)
    /\ UNCHANGED <<store, lock, channels, msgs, force, adder, host, call>>

\* A loop without the outer except Exception: the error ends the task.
SchedError_Exits(count) ==
    /\ CycleDue
    /\ loop' = [loop EXCEPT !.pc = "ended", !.failed = TRUE]
    /\ hist' = Counted(count)
    /\ UNCHANGED <<store, lock, channels, msgs, chk, force, adder, host, call>>

\* The same place, with an exception out of the try block: sleep_time = 60.
SchedError(count) ==
    /\ CycleDue
    /\ loop' = [loop EXCEPT !.pc = "sleep", !.sleep_time = ErrorSleep,
                            !.failed = TRUE]
    /\ hist' = Counted(count)
    /\ UNCHANGED <<store, lock, channels, msgs, chk, force, adder, host, call>>

\* The check returned and asyncio.sleep(2) is over: on with the for loops.
\* With remember, hist keeps what the finished check fetched and sent.
SchedAfterCheck(remember) ==
    /\ loop.pc = "check"
    /\ chk["sched"].pc = "done"
    /\ LoopAdvance(loop)
    /\ hist' = IF remember THEN [hist EXCEPT !.prev["sched"] = Summary(chk["sched"])]
                ELSE hist
    /\ UNCHANGED <<store, lock, channels, msgs, force, adder, host, call>>

\* A loop without the inner try: the error ends the cycle in the outer handler.
SchedAfterRaise_Aborts(remember) ==
    /\ loop.pc = "check"
    /\ chk["sched"].pc = "raised"
    /\ loop' = [loop EXCEPT !.pc = "sleep", !.sleep_time = ErrorSleep,
                            !.failed = TRUE]
    /\ chk' = [chk EXCEPT !["sched"] = IdleFrame]
    /\ UNCHANGED <<store, lock, channels, msgs, force, adder, host, hist, call>>

\* except Exception around the call of _check_single_streamer: the error is
\* logged, asyncio.sleep(2) follows, the for loops go on.
SchedAfterRaise(remember) ==
    /\ loop.pc = "check"
    /\ chk["sched"].pc = "raised"
    /\ LoopAdvance(loop)
    /\ hist' = IF remember THEN [hist EXCEPT !.prev["sched"] = Summary(chk["sched"])]
                ELSE hist
    /\ UNCHANGED <<store, lock, channels, msgs, force, adder, host, call>>

\* cog_unload, first half: self._check_task.cancel().  CancelledError comes out
\* of the await the task stands at (it is no Exception, so neither handler of
\* the loop keeps it, and the outer one re-raises it): the task ends.  Inside
\* the offline block it passes through __aexit__ like any exception.
Cancel ==
    /\ loop.pc \in {"waiting", "check", "sleep"}
    /\ loop' = [loop EXCEPT !.pc = "cancelled"]
    /\ chk' = [chk EXCEPT !["sched"].pc =
                 IF @ \in CheckAwaits THEN "cancelled" ELSE @]
    /\ IF chk["sched"].pc \in LockedAwaits
       THEN ExitRaised(chk["sched"])
       ELSE UNCHANGED <<store, lock>>
    /\ UNCHANGED <<channels, msgs, force, adder, host, hist, call>>

\* A cog_unload that closes the session without cancelling the task.
UnloadFinish_NoCancel ==
    /\ loop.pc \in {"waiting", "check", "sleep"}
    /\ host.session = "open"
    /\ host' = [host EXCEPT !.session = "closed"]
    /\ UNCHANGED <<store, lock, channels, msgs, chk, loop, force, adder, hist, call>>

\* cog_unload, second half: await self._check_task has returned, the session
\* is closed.
UnloadFinish ==
    /\ loop.pc = "cancelled"
    /\ host.session = "open"
    /\ host' = [host EXCEPT !.session = "closed"]
    /\ UNCHANGED <<store, lock, channels, msgs, chk, loop, force, adder, hist, call>>

\* ------------------------------------------------------ kickalert force
\* streamers = await self.config.guild(ctx.guild).streamers()
ForceStart(g) ==
    /\ loop.pc # "unloaded"
    /\ force.pc = "idle"
    /\ LET streamers == store[g].streamers
       IN  force' = IF DOMAIN streamers = {} THEN force
                    ELSE [force EXCEPT !.pc = "read", !.g = g,
                                       !.streamers = streamers,
                                       !.todo = DOMAIN streamers]
    /\ UNCHANGED <<store, lock, channels, msgs, chk, loop, adder, host, hist, call>>

ForceAdvance(fc) ==
    IF fc.todo # {}
    THEN \E u \in fc.todo :
           /\ force' = [fc EXCEPT !.pc = "check", !.todo = @ \ {u}]
           /\ chk' = [chk EXCEPT !["force"] =
                 CallCheck(fc.g, u, fc.streamers[u], fc.guild_data)]
    ELSE /\ force' = IdleForce
         /\ chk' = [chk EXCEPT !["force"] = IdleFrame]

\* guild_data = await self.config.guild(ctx.guild).all(), then the first check.
ForceReadAll ==
    /\ force.pc = "read"
    /\ ForceAdvance([force EXCEPT !.guild_data = store[force.g]])
    /\ UNCHANGED <<store, lock, channels, msgs, loop, adder, host, hist, call>>

\* The check returned, the re-read and asyncio.sleep(1) are over.
ForceAfterCheck(remember) ==
    /\ force.pc = "check"
    /\ chk["force"].pc = "done"
    /\ ForceAdvance(force)
    /\ hist' = IF remember THEN [hist EXCEPT !.prev["force"] = Summary(chk["force"])]
                ELSE hist
    /\ UNCHANGED <<store, lock, channels, msgs, loop, adder, host, call>>

\* -------------------------------------------------- the other commands
\* kickalert add up to its async with: the fetch, the parse, the check that
\* some channel is set.
AddFetch(a, g, username, channel, R) ==
    /\ loop.pc # "unloaded"
    /\ adder[a].pc = "idle"
    /\ channel \in channels \cup {None}
    /\ \E resp \in R :
         LET data == FetchChannelData(resp)
             info == ParseStreamInfo(data)
         IN  adder' = [adder EXCEPT ![a] =
               IF ~data.has THEN [IdleAdder EXCEPT !.reply = "not found"]
               ELSE IF channel = None /\ store[g].global_channel_id = None
                    THEN [IdleAdder EXCEPT !.reply = "no channel"]
               ELSE [pc |-> "txn", g |-> g, username |-> username,
                     channel_id |-> channel, info |-> info, reply |-> "none"]]
    /\ UNCHANGED <<store, lock, channels, msgs, chk, loop, force, host, hist, call>>

\* An add without the "already monitored" test.
AddStreamer_Overwrite(streamers, username, channel_id, info) ==
    (username :> NewStreamer(channel_id, info)) @@ streamers

\* The body of kickalert add's async with.
AddStreamer(streamers, username, channel_id, info) ==
    IF username \in DOMAIN streamers
    THEN streamers
    ELSE (username :> NewStreamer(channel_id, info)) @@ streamers

AddTxn(a) ==
    /\ adder[a].pc = "txn"
    /\ lock[adder[a].g] = "free"
    /\ LET c == adder[a]
       IN  /\ store' = [store EXCEPT ![c.g].streamers =
                          AddStreamer(@, c.username, c.channel_id, c.info)]
           /\ adder' = [adder EXCEPT ![a] =
                 [IdleAdder EXCEPT !.reply =
                     IF c.username \in DOMAIN store[c.g].streamers
                     THEN "already monitored" ELSE "added"]]
    /\ UNCHANGED <<lock, channels, msgs, chk, loop, force, host, hist, call>>

\* kickalert remove
Remove(g, username) ==
    /\ loop.pc # "unloaded"
    /\ lock[g] = "free"
    /\ username \in DOMAIN store[g].streamers
    /\ store' = [store EXCEPT ![g].streamers =
                   [u \in DOMAIN @ \ {username} |-> @[u]]]
    /\ UNCHANGED <<lock, channels, msgs, chk, loop, force, adder, host, hist, call>>

\* A setrole that writes without waiting for the lock.
SetRole_NoLock(g, username, role) ==
    /\ loop.pc # "unloaded"
    /\ store' = IF username \notin DOMAIN store[g].streamers THEN store
                ELSE [store EXCEPT ![g].streamers[username].ping_role_id = role]
    /\ UNCHANGED <<lock, channels, msgs, chk, loop, force, adder, host, hist, call>>

\* kickalert setrole <role> <username>: one async with ... streamers() block
\* without an await inside.
SetRole(g, username, role) ==
    /\ loop.pc # "unloaded"
    /\ lock[g] = "free"
    /\ store' = IF username \notin DOMAIN store[g].streamers THEN store
                ELSE [store EXCEPT ![g].streamers[username].ping_role_id = role]
    /\ UNCHANGED <<lock, channels, msgs, chk, loop, force, adder, host, hist, call>>

\* kickalert message <username> [message]: likewise; message is the template
\* given, None without one.
SetMessage(g, username, message) ==
    /\ loop.pc # "unloaded"
    /\ lock[g] = "free"
    /\ store' = IF username \notin DOMAIN store[g].streamers THEN store
                ELSE [store EXCEPT ![g].streamers[username].custom_message = message]
    /\ UNCHANGED <<lock, channels, msgs, chk, loop, force, adder, host, hist, call>>

\* kickalert setchannel
SetChannel(g, channel) ==
    /\ loop.pc # "unloaded"
    /\ channel \in channels
    /\ store' = [store EXCEPT ![g].global_channel_id = channel]
    /\ UNCHANGED <<lock, channels, msgs, chk, loop, force, adder, host, hist, call>>

\* kickalert autodelete
AutoDelete(g, toggle) ==
    /\ loop.pc # "unloaded"
    /\ store' = [store EXCEPT ![g].auto_delete = toggle]
    /\ UNCHANGED <<lock, channels, msgs, chk, loop, force, adder, host, hist, call>>

\* An interval command without its two range tests.
Interval_Unchecked(g, seconds) ==
    /\ loop.pc # "unloaded"
    /\ store' = [store EXCEPT ![g].check_interval = seconds]
    /\ UNCHANGED <<lock, channels, msgs, chk, loop, force, adder, host, hist, call>>

\* kickalert interval
Interval(g, seconds) ==
    /\ loop.pc # "unloaded"
    /\ store' = IF seconds < MinInterval \/ seconds > MaxInterval THEN store
                ELSE [store EXCEPT ![g].check_interval = seconds]
    /\ UNCHANGED <<lock, channels, msgs, chk, loop, force, adder, host, hist, call>>

\* str.lower() on the words an operator may type.
Lower(word) ==
    CASE word = "Minimal" -> "minimal"
      [] word = "DETAILED" -> "detailed"
      [] word = "Compact" -> "compact"
      [] OTHER -> word

\* kickalert style
Style(g, style) ==
    /\ loop.pc # "unloaded"
    /\ store' = IF Lower(style) \notin {"detailed", "minimal"} THEN store
                ELSE [store EXCEPT ![g].embed_style = Lower(style)]
    /\ UNCHANGED <<lock, channels, msgs, chk, loop, force, adder, host, hist, call>>

\* kickalert clear [confirm]: without confirm a warning only; with it,
\* config.guild(ctx.guild).clear() puts every value of the guild back to its
\* registered default.  It does not take the streamers lock.
Clear(g, confirm) ==
    /\ loop.pc # "unloaded"
    /\ store' = IF confirm THEN [store EXCEPT ![g] = DefaultGuild] ELSE store
    /\ UNCHANGED <<lock, channels, msgs, chk, loop, force, adder, host, hist, call>>

\* A Discord channel is deleted: guild.get_channel no longer resolves its id.
ChannelDeleted(channel) ==
    /\ channel \in channels
    /\ channels' = channels \ {channel}
    /\ UNCHANGED <<store, lock, msgs, chk, loop, force, adder, host, hist, call>>

\* ------------------------------------------------------ the pure helpers
\* A text is a sequence of tokens: a token is a placeholder such as "{url}"
\* or a piece of text without braces.

\* str.replace(old, new): every token old of text gives way to the tokens new.
RECURSIVE Replace(_, _, _)
Replace(text, old, new) ==
    IF text = <<>> THEN <<>>
    ELSE (IF Head(text) = old THEN new ELSE <<Head(text)>>)
         \o Replace(Tail(text), old, new)

\* str() of a viewer count.
Digits == <<"0", "1", "2", "3", "4", "5", "6", "7", "8", "9">>

RECURSIVE Str(_)
Str(n) == IF n < 10 THEN Digits[n + 1] ELSE Str(n \div 10) \o Digits[(n % 10) + 1]

\* The placeholders in the order of the replace calls.
PlaceholderOrder == <<"{streamer}", "{game}", "{title}", "{url}", "{viewers}">>

\* What each replace call inserts.
PlaceholderValue(placeholder, info) ==
    CASE placeholder = "{streamer}" -> info.display_name
      [] placeholder = "{game}" -> info.category
      [] placeholder = "{title}" -> info.stream_title
      [] placeholder = "{url}" -> info.channel_url
      [] placeholder = "{viewers}" -> <<Str(info.viewer_count)>>

\* The replace calls for the placeholders order[i], order[i + 1], ... one
\* after the other, each on the result of the one before.
RECURSIVE ReplaceFrom(_, _, _, _)
ReplaceFrom(order, i, text, info) ==
    IF i > Len(order) THEN text
    ELSE ReplaceFrom(order, i + 1,
                     Replace(text, order[i], PlaceholderValue(order[i], info)), info)

\* The custom message of a went-live notification.
CustomMessage(custom_msg, info) == ReplaceFrom(PlaceholderOrder, 1, custom_msg, info)

\* The custom message is built.
MessageCall ==
    /\ call.fn = "message"
    /\ ~call.done
    /\ call' = [call EXCEPT !.out = CustomMessage(call.arg.custom_msg, call.arg.info),
                            !.done = TRUE]
    /\ UNCHANGED <<store, lock, channels, msgs, chk, loop, force, adder, host, hist>>

\* The helper under observation returns.
ParseCall ==
    /\ call.fn = "parse"
    /\ ~call.done
    /\ call' = [call EXCEPT !.out = ParseStreamInfo(call.arg), !.done = TRUE]
    /\ UNCHANGED <<store, lock, channels, msgs, chk, loop, force, adder, host, hist>>

\* ------------------------------------------------------- specifications
\* The checker loop on its own: one guild, one streamer name, the add command
\* that creates the entry, no other caller of the check.
Loop(remember, log) ==
    \/ CogLoad
    \/ BotReady
    \/ SchedCycle(FALSE)
    \/ SchedAfterCheck(remember)
    \/ CheckStep("sched", log, Responses)
    \/ AddFetch("a1", 1, "nova", 1, Responses)
    \/ AddTxn("a1")

Next ==
    \/ Loop(FALSE, FALSE)
    \/ \E s \in Styles : Style(1, s)

Spec == Init /\ [][Next]_vars

\* The loop, with the announcements sent kept in hist.
NextLog == Loop(FALSE, TRUE)

SpecLog == Init /\ [][NextLog]_vars

\* The loop, with the previous check kept in hist.
NextTwice ==
    \/ Loop(TRUE, FALSE)
    \/ \E s \in Styles : Style(1, s)

SpecTwice == Init /\ [][NextTwice]_vars

\* The loop and the autodelete command.
NextAuto ==
    \/ Loop(FALSE, FALSE)
    \/ \E t \in BOOLEAN : AutoDelete(1, t)

SpecAuto == Init /\ [][NextAuto]_vars

\* A loaded cog whose guild 1 already watches "nova", as kickalert add leaves
\* it for each upstream answer.
InitWatched ==
    /\ \E r \in Responses :
         /\ FetchChannelData(r).has
         /\ store = [g \in Guilds |->
               IF g = 1
               THEN [DefaultGuild EXCEPT !.streamers =
                       "nova" :> NewStreamer(1, ParseStreamInfo(FetchChannelData(r)))]
               ELSE DefaultGuild]
    /\ lock = [g \in Guilds |-> "free"]
    /\ channels = ChannelIds
    /\ msgs = <<>>
    /\ chk = [p \in Checkers |-> IdleFrame]
    /\ loop = [IdleLoop EXCEPT !.pc = "waiting"]
    /\ force = IdleForce
    /\ adder = [a \in Adders |-> IdleAdder]
    /\ host = [bot_ready |-> TRUE, ready_event |-> TRUE, session |-> "open"]
    /\ hist = [prev |-> [p \in Checkers |-> NoCheck], announced |-> {}, twice |-> {},
               cycle |-> 0]
    /\ call = NoCall

\* The loop and a force command in the same guild.
NextForce ==
    \/ SchedCycle(FALSE)
    \/ SchedAfterCheck(FALSE)
    \/ \E p \in Checkers : CheckStep(p, FALSE, Responses)
    \/ ForceStart(1)
    \/ ForceReadAll
    \/ ForceAfterCheck(FALSE)

SpecForce == InitWatched /\ [][NextForce]_vars

\* Two add commands and a remove for one name in one guild.
NextAdd ==
    \/ CogLoad
    \/ \E a \in Adders, c \in {None, 1} : AddFetch(a, 1, "nova", c, Responses)
    \/ \E a \in Adders : AddTxn(a)
    \/ Remove(1, "nova")
    \/ SetChannel(1, 2)

SpecAdd == Init /\ [][NextAdd]_vars

\* Seconds an operator may give to kickalert interval (two are refused).
IntervalInputs == {MinInterval - 10, MinInterval, 45, MaxInterval, MaxInterval + 1}

\* The loop over two guilds whose streamers stay offline, with the commands
\* that change which guilds have streamers and their intervals.
NextSleep ==
    \/ CogLoad
    \/ BotReady
    \/ SchedCycle(FALSE)
    \/ SchedError(FALSE)
    \/ SchedAfterCheck(FALSE)
    \/ CheckFetch("sched", OfflineResponses)
    \/ \E g \in Guilds : AddFetch("a1", g, "nova", 1, OfflineResponses)
    \/ AddTxn("a1")
    \/ \E g \in Guilds : Remove(g, "nova")
    \/ \E g \in Guilds, seconds \in IntervalInputs : Interval(g, seconds)

SpecSleep == Init /\ [][NextSleep]_vars

\* An upstream that answers with a live stream 1, with no stream, or fails.
FewResponses ==
    {r \in Responses :
        /\ r.kind = "http" /\ r.status \in {200, 500}
        /\ r.livestream.present => (r.livestream.is_live /\ r.livestream.id = 1)}

\* A loaded cog with two streamers in guild 1 and one in guild 2, each entry
\* as kickalert add leaves it for a live or an offline stream.
InitMany ==
    /\ \E i \in {NoInfo, [is_live |-> TRUE, stream_id |-> 1]} :
         store = [g \in Guilds |->
            IF g = 1
            THEN [DefaultGuild EXCEPT !.streamers =
                    ("nova" :> NewStreamer(1, i)) @@ ("zed" :> NewStreamer(1, i))]
            ELSE [DefaultGuild EXCEPT !.streamers = "nova" :> NewStreamer(2, i)]]
    /\ lock = [g \in Guilds |-> "free"]
    /\ channels = ChannelIds
    /\ msgs = <<>>
    /\ chk = [p \in Checkers |-> IdleFrame]
    /\ loop = [IdleLoop EXCEPT !.pc = "waiting"]
    /\ force = IdleForce
    /\ adder = [a \in Adders |-> IdleAdder]
    /\ host = [bot_ready |-> TRUE, ready_event |-> TRUE, session |-> "open"]
    /\ hist = [prev |-> [p \in Checkers |-> NoCheck], announced |-> {}, twice |-> {},
               cycle |-> 0]
    /\ call = NoCall

\* The loop over several streamers and guilds, with checks that raise.
NextRaise ==
    \/ SchedCycle(FALSE)
    \/ SchedAfterCheck(TRUE)
    \/ SchedAfterRaise(TRUE)
    \/ CheckStep("sched", FALSE, FewResponses)
    \/ CheckRaise("sched")

SpecRaise == InitMany /\ [][NextRaise]_vars

\* The loop under fair scheduling: a sleep ends (and the config read that
\* follows returns or raises), an await of the check completes or raises, the
\* delay after a check ends.
NextFair ==
    \/ SchedCycle(TRUE)
    \/ SchedError(TRUE)
    \/ SchedAfterCheck(FALSE)
    \/ SchedAfterRaise(FALSE)
    \/ CheckStep("sched", FALSE, Responses)
    \/ CheckRaise("sched")

SpecFair ==
    /\ InitWatched
    /\ [][NextFair]_vars
    /\ WF_vars(SchedCycle(TRUE) \/ SchedError(TRUE))
    /\ WF_vars(SchedAfterCheck(FALSE))
    /\ WF_vars(SchedAfterRaise(FALSE))
    /\ WF_vars(CheckStep("sched", FALSE, Responses) \/ CheckRaise("sched"))

\* The loop and the unload of the cog.
NextUnload ==
    \/ SchedCycle(FALSE)
    \/ SchedAfterCheck(FALSE)
    \/ CheckStep("sched", FALSE, Responses)
    \/ Cancel
    \/ UnloadFinish

SpecUnload == InitWatched /\ [][NextUnload]_vars

\* Role ids and message templates an operator may give.
RoleIds == {1}
Templates == {1}

\* The loop checking "nova" while an operator configures it and adds and
\* removes "zed" in the same guild.
NextOperator ==
    \/ SchedCycle(FALSE)
    \/ SchedAfterCheck(FALSE)
    \/ CheckStep("sched", FALSE, FewResponses)
    \/ \E role \in RoleIds : SetRole(1, "nova", role)
    \/ \E message \in Templates : SetMessage(1, "nova", message)
    \/ AddFetch("a1", 1, "zed", 1, FewResponses \cap OfflineResponses)
    \/ AddTxn("a1")
    \/ Remove(1, "zed")

\* Guild 1 watches "nova", added while offline.
InitOperator ==
    /\ InitWatched
    /\ ~store[1].streamers["nova"].is_live

SpecOperator == InitOperator /\ [][NextOperator]_vars

\* Words an operator may give to kickalert style.
StyleInputs == {"detailed", "minimal", "Minimal", "DETAILED", "Compact", "fancy", ""}

\* The settings commands of two guilds, with adds that give clear something
\* to remove.
NextSettings ==
    \/ CogLoad
    \/ \E g \in Guilds, seconds \in IntervalInputs : Interval(g, seconds)
    \/ \E g \in Guilds, style \in StyleInputs : Style(g, style)
    \/ \E g \in Guilds, confirm \in BOOLEAN : Clear(g, confirm)
    \/ \E g \in Guilds : AddFetch("a1", g, "nova", 1, FewResponses \cap OfflineResponses)
    \/ AddTxn("a1")

SpecSettings == Init /\ [][NextSettings]_vars

\* A livestream object with every stream key, and the livestream objects
\* that have some of its keys, with is_live true, false or missing.
FullLivestream ==
    [id |-> 1, session_title |-> Just("t"), viewer_count |-> 5,
     categories |-> <<"Chess">>, thumbnail |-> Just("u"),
     created_at |-> Just("d"), language |-> Just("de"), is_mature |-> TRUE,
     tags |-> <<"a">>]

RichLivestreams ==
    {[k \in K \cup {"present"} |->
        IF k = "present" THEN TRUE
        ELSE IF k = "is_live" THEN b
        ELSE FullLivestream[k]] :
     K \in SUBSET (DOMAIN FullLivestream \cup {"is_live"}), b \in BOOLEAN}

\* Bodies of a 200 answer: livestream null, or one of the objects above.
Payloads ==
    {[has |-> TRUE, livestream |-> ls] : ls \in RichLivestreams \cup {NoLivestream}}

\* _parse_stream_info called on each payload.
InitParse ==
    /\ store = [g \in Guilds |-> DefaultGuild]
    /\ lock = [g \in Guilds |-> "free"]
    /\ channels = ChannelIds
    /\ msgs = <<>>
    /\ chk = [p \in Checkers |-> IdleFrame]
    /\ loop = IdleLoop
    /\ force = IdleForce
    /\ adder = [a \in Adders |-> IdleAdder]
    /\ host = [bot_ready |-> FALSE, ready_event |-> FALSE, session |-> "none"]
    /\ hist = [prev |-> [p \in Checkers |-> NoCheck], announced |-> {}, twice |-> {},
               cycle |-> 0]
    /\ \E data \in Payloads :
         call = [fn |-> "parse", arg |-> data, out |-> None, done |-> FALSE]

SpecParse == InitParse /\ [][ParseCall]_vars

\* The answers of an upstream on which the streamer exists: never a 404.
ExistingResponses == {r \in Responses : ~(r.kind = "http" /\ r.status = 404)}

\* Add commands for a streamer that exists upstream.
NextExisting ==
    \/ CogLoad
    \/ \E a \in Adders, c \in {None, 1} : AddFetch(a, 1, "nova", c, ExistingResponses)
    \/ \E a \in Adders : AddTxn(a)
    \/ Remove(1, "nova")
    \/ SetChannel(1, 2)

SpecExisting == Init /\ [][NextExisting]_vars

\* The loop checking "nova", added with a channel of its own or without,
\* while the global channel is set and channels are deleted.
NextDelivery ==
    \/ CogLoad
    \/ BotReady
    \/ SchedCycle(FALSE)
    \/ SchedAfterCheck(FALSE)
    \/ CheckStep("sched", FALSE, FewResponses)
    \/ SetChannel(1, 2)
    \/ \E c \in {None, 1} : AddFetch("a1", 1, "nova", c, FewResponses)
    \/ AddTxn("a1")
    \/ \E channel \in ChannelIds : ChannelDeleted(channel)

SpecDelivery == Init /\ [][NextDelivery]_vars

\* The loop checking "nova", which is removed while a check of it is at one
\* of its awaits.
NextRemove ==
    \/ SchedCycle(FALSE)
    \/ SchedAfterCheck(FALSE)
    \/ CheckStep("sched", FALSE, Responses)
    \/ chk["sched"].pc \in CheckAwaits /\ Remove(1, "nova")

SpecRemove == InitWatched /\ [][NextRemove]_vars

\* A loaded cog whose guild 1 watches "nova" and was given an interval other
\* than the default, as kickalert interval 45 leaves it.
InitTuned ==
    /\ \E r \in Responses :
         /\ FetchChannelData(r).has
         /\ store = [g \in Guilds |->
               IF g = 1
               THEN [DefaultGuild EXCEPT
                       !.streamers =
                          "nova" :> NewStreamer(1, ParseStreamInfo(FetchChannelData(r))),
                       !.check_interval = 45]
               ELSE DefaultGuild]
    /\ lock = [g \in Guilds |-> "free"]
    /\ channels = ChannelIds
    /\ msgs = <<>>
    /\ chk = [p \in Checkers |-> IdleFrame]
    /\ loop = [IdleLoop EXCEPT !.pc = "waiting"]
    /\ force = IdleForce
    /\ adder = [a \in Adders |-> IdleAdder]
    /\ host = [bot_ready |-> TRUE, ready_event |-> TRUE, session |-> "open"]
    /\ hist = [prev |-> [p \in Checkers |-> NoCheck], announced |-> {}, twice |-> {},
               cycle |-> 0]
    /\ call = NoCall

\* The loop checking "nova" and a confirmed clear of the guild issued while a
\* check is at one of its awaits; nothing is added afterwards.
NextClear ==
    \/ SchedCycle(FALSE)
    \/ SchedAfterCheck(FALSE)
    \/ CheckStep("sched", FALSE, Responses)
    \/ chk["sched"].pc \in CheckAwaits /\ Clear(1, TRUE)

SpecClear == InitTuned /\ [][NextClear]_vars

\* The answers of an upstream on which the streamer stays live with stream
\* id 1: that payload, or a failure of the fetch.
LivePayload ==
    [kind |-> "http", status |-> 200,
     livestream |-> [present |-> TRUE, is_live |-> TRUE, id |-> 1]]

StaysLiveResponses ==
    {LivePayload} \cup {r \in Responses : ~FetchChannelData(r).has}

\* The loop checking "nova" (watched since an add that saw any of the
\* payloads) while it stays live with stream id 1.  Fetches and sends may
\* fail, but not for ever; every await completes; every sleep ends.
NextStaysLive ==
    \/ SchedCycle(FALSE)
    \/ SchedAfterCheck(FALSE)
    \/ CheckFetch("sched", StaysLiveResponses)
    \/ CheckSend("sched", TRUE)
    \/ CheckSave("sched")
    \/ CheckRefFetch("sched")
    \/ CheckRefEdit("sched")
    \/ \E s \in Styles : Style(1, s)

SpecStaysLive ==
    /\ InitWatched
    /\ [][NextStaysLive]_vars
    /\ WF_vars(SchedCycle(FALSE))
    /\ WF_vars(SchedAfterCheck(FALSE))
    /\ WF_vars(CheckFetch("sched", StaysLiveResponses))
    /\ WF_vars(CheckSend("sched", TRUE))
    /\ WF_vars(CheckSave("sched"))
    /\ WF_vars(CheckRefFetch("sched"))
    /\ WF_vars(CheckRefEdit("sched"))
    /\ SF_vars(CheckFetch("sched", {LivePayload}))
    /\ SF_vars(CheckSend("sched", TRUE) /\ chk'["sched"].sent = 1)

\* The loop checking "nova" while channels of the guild are deleted.
NextChannel ==
    \/ SchedCycle(FALSE)
    \/ SchedAfterCheck(FALSE)
    \/ CheckStep("sched", FALSE, Responses)
    \/ \E channel \in ChannelIds : ChannelDeleted(channel)

SpecChannel == InitWatched /\ [][NextChannel]_vars

\* Tokens of a custom message: placeholders, an unknown placeholder, text.
MaxTemplate == 2

TemplateTokens == {"{streamer}", "{game}", "{title}", "{url}", "{viewers}", "{uptime}", "live:"}

CustomMessages == UNION {[1..n -> TemplateTokens] : n \in 1..MaxTemplate}

\* Infos of live streams: the title is what the streamer typed.
MessageInfos ==
    [display_name : {<<"Nova">>},
     category : {<<"Chess">>},
     stream_title : {<<"Finals">>, <<"{url}">>, <<"my", "{viewers}">>, <<"{streamer}">>},
     channel_url : {<<"https://kick.com/nova">>},
     viewer_count : {0, 12}]

\* The custom message built from each template and info.
InitMessage ==
    /\ store = [g \in Guilds |-> DefaultGuild]
    /\ lock = [g \in Guilds |-> "free"]
    /\ channels = ChannelIds
    /\ msgs = <<>>
    /\ chk = [p \in Checkers |-> IdleFrame]
    /\ loop = IdleLoop
    /\ force = IdleForce
    /\ adder = [a \in Adders |-> IdleAdder]
    /\ host = [bot_ready |-> FALSE, ready_event |-> FALSE, session |-> "none"]
    /\ hist = [prev |-> [p \in Checkers |-> NoCheck], announced |-> {}, twice |-> {},
               cycle |-> 0]
    /\ \E custom_msg \in CustomMessages, info \in MessageInfos :
         call = [fn |-> "message", arg |-> [custom_msg |-> custom_msg, info |-> info],
                 out |-> None, done |-> FALSE]

SpecMessage == InitMessage /\ [][MessageCall]_vars

\* ----------------------------------------------------------------- claims
\* The stored entry of a frame's streamer.
Stored(f) == store[f.g].streamers[f.username]

IsStored(f) == f.username \in DOMAIN store[f.g].streamers

Finished(f, branch) == f.pc = "done" /\ f.branch = branch

\* C1: over the loop's successive cycles for one streamer, no went-live
\* announcement is successfully sent twice for the same (streamer, stream id).
\* Stated for payloads that carry an id: a repeat without one is not counted.
C1_OneAnnouncementPerSession == \A a \in hist.twice : a[3] = None

\* C2: when the loop's check and a force command's check of the same streamer
\* are interleaved, they do not both send a went-live announcement for the
\* same (streamer, stream id), the id being present.
C2_OneAnnouncementAcrossCallers ==
    ~ /\ chk["sched"].sent = 1
      /\ chk["sched"].info.stream_id # None
      /\ chk["force"].sent = 1
      /\ Announcement(chk["sched"]) = Announcement(chk["force"])

\* C3: a check of an entry stored as not live whose fetch is live with stream
\* id s, whose channel resolves and whose send succeeds, has sent exactly once
\* and leaves the entry with is_live, last_stream_id = s and last_message_id =
\* the id of the message just sent.
C3_WentLivePersisted ==
    \A p \in Checkers :
        LET f == chk[p]
        IN  (Finished(f, "live") /\ ~f.streamer_config.is_live /\ f.sent = 1
                /\ IsStored(f))
            => /\ f.sends = 1
               /\ f.msg = Len(msgs)
               /\ msgs[f.msg].st = "live"
               /\ Stored(f).is_live
               /\ Stored(f).last_stream_id = f.info.stream_id
               /\ Stored(f).last_message_id = f.msg

C3_Witness ==
    LET f == chk["sched"]
    IN  /\ Finished(f, "live") /\ ~f.streamer_config.is_live /\ f.sent = 1
        /\ f.info.stream_id # None
        /\ IsStored(f) /\ Stored(f).last_message_id = f.msg

\* C4: two checks in a row of a streamer whose fetch is live with the same
\* stream id both times send at most one message successfully between them;
\* after a first run that sent, or that was itself a refresh or a no-op, the
\* second run sends nothing and is a refresh or a no-op; the second run is a
\* went-live only as the retry of a first run whose send failed.
C4_SecondRunSendsNothing ==
    LET f == chk["sched"]
        h == hist.prev["sched"]
    IN  (/\ f.pc = "done"
         /\ h.g = f.g /\ h.username = f.username
         /\ h.info.is_live /\ f.info.is_live
         /\ h.info.stream_id = f.info.stream_id)
        => /\ h.sent + f.sent <= 1
           /\ (h.sent = 1 \/ h.branch \in {"refresh", "noop"})
                => (f.sends = 0 /\ f.branch \in {"refresh", "noop"})
           /\ f.branch = "live" => (h.branch = "live" /\ h.sent = 0)

\* C4 as first stated: whenever two checks in a row see the same live stream
\* id, the second one is a refresh or a no-op.
C4_SecondRunNeverWentLive ==
    LET f == chk["sched"]
        h == hist.prev["sched"]
    IN  (/\ f.pc = "done"
         /\ h.g = f.g /\ h.username = f.username
         /\ h.info.is_live /\ f.info.is_live
         /\ h.info.stream_id = f.info.stream_id)
        => f.branch \in {"refresh", "noop"}

C4_Witness ==
    LET f == chk["sched"]
        h == hist.prev["sched"]
    IN  /\ f.pc = "done" /\ h.username = f.username
        /\ h.info.is_live /\ f.info.is_live
        /\ h.info.stream_id = f.info.stream_id
        /\ h.sent = 1 /\ f.branch = "refresh" /\ f.edited = 1

\* C5: for an entry stored as live, a fetch that is live with another stream
\* id is a went-live: one send, no fetch, edit or delete of the earlier
\* message, and after the send the entry holds the new stream id and the new
\* message's id.
C5_NewSessionIsWentLive ==
    \A p \in Checkers :
        LET f == chk[p]
        IN  (/\ f.pc = "done" /\ f.branch # "nochannel"
             /\ f.streamer_config.is_live /\ f.info.is_live
             /\ f.info.stream_id # None
             /\ f.info.stream_id # f.streamer_config.last_stream_id)
            => /\ f.branch = "live" /\ f.sends = 1
               /\ f.fetched = 0 /\ f.edits = 0 /\ f.deletes = 0
               /\ (f.sent = 1 /\ IsStored(f)) =>
                    /\ f.msg # f.streamer_config.last_message_id
                    /\ Stored(f).last_stream_id = f.info.stream_id
                    /\ Stored(f).last_message_id = f.msg

C5_Witness ==
    LET f == chk["sched"]
    IN  /\ Finished(f, "live") /\ f.sent = 1
        /\ f.streamer_config.is_live
        /\ f.streamer_config.last_message_id # None
        /\ f.streamer_config.last_stream_id # None
        /\ f.info.stream_id # None
        /\ f.info.stream_id # f.streamer_config.last_stream_id
        /\ msgs[f.streamer_config.last_message_id].st = "live"
        /\ Stored(f).last_message_id = f.msg

\* C6: after a went-offline transition the entry has is_live = False and
\* last_message_id = None, whether fetch_message, edit or delete succeeded or
\* raised NotFound, Forbidden or HTTPException.
C6_OfflineClearsMessage ==
    \A p \in Checkers :
        LET f == chk[p]
        IN  (Finished(f, "offline") /\ IsStored(f))
            => ~Stored(f).is_live /\ Stored(f).last_message_id = None

C6_Witness ==
    LET f == chk["sched"]
    IN  /\ Finished(f, "offline") /\ IsStored(f)
        /\ f.last_msg_id # None /\ f.found = 1
        /\ f.edits = 1 /\ f.edited = 0
        /\ msgs[f.last_msg_id].st = "live"

\* C7: a went-offline transition of an entry with a stored message and
\* delete_after_offline = False never deletes; the message it fetched is
\* edited to the offline embed; the entry ends is_live = False,
\* last_message_id = None.
C7_OfflineEditsInPlace ==
    \A p \in Checkers :
        LET f == chk[p]
        IN  (/\ Finished(f, "offline") /\ f.last_msg_id # None
             /\ ~f.streamer_config.delete_after_offline)
            => /\ f.deletes = 0
               /\ f.fetched = 1
               /\ f.found = 1 => f.edits = 1
               /\ f.edited = 1 => msgs[f.last_msg_id].st = "offline"
               /\ IsStored(f) =>
                    ~Stored(f).is_live /\ Stored(f).last_message_id = None

C7_Witness ==
    LET f == chk["sched"]
    IN  /\ Finished(f, "offline") /\ f.last_msg_id # None
        /\ ~f.streamer_config.delete_after_offline
        /\ f.edited = 1 /\ msgs[f.last_msg_id].st = "offline"
        /\ ~Stored(f).is_live /\ Stored(f).last_message_id = None

\* C8: with the guild's auto_delete on, the went-offline transition of a
\* streamer added by kickalert add deletes the announcement it fetched; with
\* auto_delete off it edits it.
C8_AutoDeleteDeletes ==
    \A p \in Checkers :
        LET f == chk[p]
        IN  (Finished(f, "offline") /\ f.found = 1)
            => IF f.auto_delete
               THEN f.deletes = 1 /\ f.edits = 0
               ELSE f.edits = 1 /\ f.deletes = 0

\* C9: the write step of kickalert add for a name the guild already watches
\* replies "already monitored" and changes nothing in the store, also when
\* another add of the same name was under way.
C9_DuplicateAddRefused ==
    [][\A a \in Adders :
         (/\ adder[a].pc = "txn" /\ adder'[a].pc = "idle"
          /\ adder[a].username \in DOMAIN store[adder[a].g].streamers)
         => (adder'[a].reply = "already monitored" /\ store' = store)]_vars

C9_Witness ==
    /\ adder["a1"].reply = "added"
    /\ adder["a2"].reply = "already monitored"
    /\ "nova" \in DOMAIN store[1].streamers

\* C10: after a cycle without error the loop sleeps max(30, the smallest
\* check_interval of the guilds of its snapshot that have streamers), and 60
\* when none has.
C10_SleepTime ==
    (loop.pc = "sleep" /\ ~loop.failed) =>
        LET watching == {g \in DOMAIN loop.all_guilds :
                            DOMAIN loop.all_guilds[g].streamers # {}}
            floored(g) == IF loop.all_guilds[g].check_interval < 30 THEN 30
                          ELSE loop.all_guilds[g].check_interval
        IN  IF watching = {} THEN loop.sleep_time = 60
            ELSE /\ \E g \in watching : loop.sleep_time = floored(g)
                 /\ \A g \in watching : loop.sleep_time <= floored(g)

C10_Witness ==
    /\ loop.pc = "sleep" /\ ~loop.failed
    /\ \A g \in Guilds : DOMAIN loop.all_guilds[g].streamers # {}
    /\ loop.all_guilds[1].check_interval = 600
    /\ loop.all_guilds[2].check_interval = 45
    /\ loop.sleep_time = 45

\* The (guild, streamer) pairs the for loops of l still have to check.
Remaining(l) ==
    {<<l.cur, u>> : u \in l.todo} \cup
    UNION {{<<g, u>> : u \in DOMAIN l.all_guilds[g].streamers} : g \in l.guilds}

\* C11: when the check of a streamer raises, the loop's next step is the check
\* of one of the streamers the cycle still had to do (the same guild's first,
\* from the same snapshot), or, with none left, the cycle's ordinary sleep,
\* from which the next cycle starts; the cycle is not ended as failed.
C11_RaiseDoesNotAbortCycle ==
    [][(chk["sched"].pc = "raised" /\ loop' # loop) =>
         LET here == {r \in Remaining(loop) : r[1] = loop.cur}
         IN  IF Remaining(loop) # {}
             THEN /\ loop'.pc = "check"
                  /\ chk'["sched"].pc = "fetch"
                  /\ <<chk'["sched"].g, chk'["sched"].username>> \in
                        (IF here # {} THEN here ELSE Remaining(loop))
                  /\ Remaining(loop') =
                        Remaining(loop) \ {<<chk'["sched"].g, chk'["sched"].username>>}
                  /\ loop'.all_guilds = loop.all_guilds
             ELSE /\ loop'.pc = "sleep"
                  /\ ~loop'.failed
                  /\ loop'.sleep_time = 60]_vars

C11_Witness ==
    /\ loop.pc = "check"
    /\ hist.prev["sched"].raised
    /\ hist.prev["sched"].g = 1
    /\ chk["sched"].g = 2
    /\ chk["sched"].pc = "done"
    /\ chk["sched"].branch = "live" /\ chk["sched"].sent = 1

\* C12: without cancellation the loop is always waiting, checking or
\* sleeping; a cycle that fails sleeps 60 seconds; and cycles keep starting
\* for ever.
C12_LoopGoesOn ==
    /\ [](loop.pc \in {"waiting", "check", "sleep"})
    /\ [](loop.failed => (loop.pc = "sleep" /\ loop.sleep_time = 60))
    /\ []<>(hist.cycle = 0)
    /\ []<>(hist.cycle = 1)

\* A second or later cycle has failed (after one in which a message was sent)
\* and the loop is in its 60 second sleep.
C12_Witness ==
    /\ loop.pc = "sleep"
    /\ loop.failed
    /\ loop.sleep_time = 60
    /\ hist.cycle = 0
    /\ Len(msgs) > 0

\* C13: no stored entry is ever half-way through a transition: an entry that
\* is not live has no last_message_id.
C13_NoTornRecord ==
    \A g \in Guilds : \A u \in DOMAIN store[g].streamers :
        ~store[g].streamers[u].is_live =>
            store[g].streamers[u].last_message_id = None

OperatorFields(e) ==
    <<e.channel_id, e.ping_role_id, e.custom_message, e.delete_after_offline>>

EngineFields(e) == <<e.is_live, e.last_stream_id, e.last_message_id>>

\* C14: a step of a check (a write of the transition engine included) neither
\* adds nor removes an entry of the guild and changes no operator field of
\* any entry; a step of an operator command changes no engine field of an
\* entry that stays.  So after both, the map has the operator's change and
\* the engine's.
C14_NoLostUpdate ==
    [][\A g \in Guilds :
         LET old == store[g].streamers
             new == store'[g].streamers
         IN  /\ chk' # chk =>
                  /\ DOMAIN new = DOMAIN old
                  /\ \A u \in DOMAIN old :
                       OperatorFields(new[u]) = OperatorFields(old[u])
             /\ chk' = chk =>
                  \A u \in DOMAIN old \cap DOMAIN new :
                       EngineFields(new[u]) = EngineFields(old[u])]_vars

\* The offline block of a check that started from a snapshot without role,
\* template or "zed" has written, and the operator's three changes made since
\* the snapshot are in the store.
C14_Witness ==
    LET f == chk["sched"]
    IN  /\ Finished(f, "offline") /\ f.edited = 1
        /\ f.streamer_config.ping_role_id = None
        /\ f.streamer_config.custom_message = None
        /\ "zed" \notin DOMAIN loop.all_guilds[1].streamers
        /\ "zed" \in DOMAIN store[1].streamers
        /\ Stored(f).ping_role_id = 1
        /\ Stored(f).custom_message = 1
        /\ ~Stored(f).is_live /\ Stored(f).last_message_id = None

\* C16: in every state each guild's check_interval is within 30..600 and its
\* embed_style is detailed or minimal; an interval command with seconds
\* outside 30..600 and a style command with a word that is neither detailed
\* nor minimal (in any letter case) change nothing in the store.
C16_SettingsStayValid ==
    /\ [](\A g \in Guilds :
            /\ store[g].check_interval \in 30..600
            /\ store[g].embed_style \in {"detailed", "minimal"})
    /\ [][(\/ \E g \in Guilds, seconds \in IntervalInputs :
                seconds \notin 30..600 /\ Interval(g, seconds)
           \/ \E g \in Guilds, style \in {"Compact", "fancy", ""} :
                Style(g, style))
          => store' = store]_vars

\* Both limits of the interval are stored, a style typed with a capital has
\* been taken, and guild 2 has its defaults.
C16_Witness ==
    /\ store[1].check_interval = 600
    /\ store[1].embed_style = "minimal"
    /\ "nova" \in DOMAIN store[1].streamers
    /\ store[2].check_interval = 30
    /\ store[2].embed_style = "detailed"
    /\ store[2].streamers = EmptyStreamers

\* C17: for a payload whose livestream is null, or whose livestream has
\* is_live false or no is_live, the parsed info has is_live = False and every
\* stream field at its default, whatever stream keys the payload carries.
C17_NotLiveDefaults ==
    (/\ call.fn = "parse" /\ call.done
     /\ \/ ~call.arg.livestream.present
        \/ "is_live" \notin DOMAIN call.arg.livestream
        \/ ~call.arg.livestream.is_live)
    => /\ call.out.is_live = FALSE
       /\ call.out.stream_id = None
       /\ call.out.stream_title = Nothing
       /\ call.out.viewer_count = 0
       /\ call.out.category = Nothing
       /\ call.out.thumbnail_url = Nothing
       /\ call.out.started_at = Nothing
       /\ call.out.language = Nothing
       /\ call.out.is_mature = FALSE
       /\ call.out.tags = <<>>

\* A payload that is not live and still carries every stream key.
C17_Witness ==
    /\ call.fn = "parse" /\ call.done
    /\ call.arg.livestream.present
    /\ DOMAIN call.arg.livestream = DOMAIN FullLivestream \cup {"present", "is_live"}
    /\ ~call.arg.livestream.is_live
    /\ call.out.stream_title = Nothing

\* The orders the five placeholders can be processed in.
Orders ==
    {order \in [1..5 -> {"{streamer}", "{game}", "{title}", "{url}", "{viewers}"}] :
        \A i, j \in 1..5 : order[i] = order[j] => i = j}

\* C18: the custom message is the same whatever order the placeholders are
\* processed in: the text inserted for one placeholder is not substituted in
\* its turn.
C18_OrderIndependent ==
    (call.fn = "message" /\ call.done)
    => \A order \in Orders :
          call.out = ReplaceFrom(order, 1, call.arg.custom_msg, call.arg.info)

\* C19: a finished check whose fetch reported not live for an entry stored
\* live, the entry still being stored, leaves it with is_live = False and
\* last_message_id = None, whether or not its channel is set and resolves.
C19_NotLiveAlwaysPersisted ==
    \A p \in Checkers :
        LET f == chk[p]
        IN  (/\ f.pc = "done" /\ f.branch # "nodata"
             /\ ~f.info.is_live
             /\ f.streamer_config.is_live
             /\ IsStored(f))
            => ~Stored(f).is_live /\ Stored(f).last_message_id = None

\* C20: when the send of a went-live announcement raises Forbidden or
\* HTTPException, the check has ended without raising, it has called send
\* once, and the entry's is_live, last_stream_id and last_message_id are what
\* they were when the check began.
C20_FailedSendLeavesRecord ==
    \A p \in Checkers :
        LET f == chk[p]
        IN  (f.branch = "live" /\ f.sends >= 1 /\ f.sent = 0)
            => /\ f.pc = "done"
               /\ f.sends = 1
               /\ IsStored(f)
               /\ Stored(f).is_live = f.streamer_config.is_live
               /\ Stored(f).last_stream_id = f.streamer_config.last_stream_id
               /\ Stored(f).last_message_id = f.streamer_config.last_message_id

\* The send for a new stream fails while the entry is live with the message
\* of the stream before.
C20_Witness ==
    LET f == chk["sched"]
    IN  /\ Finished(f, "live") /\ f.sends = 1 /\ f.sent = 0
        /\ f.streamer_config.is_live
        /\ f.streamer_config.last_message_id # None
        /\ f.info.stream_id # f.streamer_config.last_stream_id
        /\ Stored(f) = f.streamer_config

\* C21: a check whose fetch failed (a status other than 200, a timeout, a
\* client error, any other exception) has returned without raising, has
\* called neither send, fetch_message, edit nor delete, and has left the
\* entry as it was.
C21_FailedFetchTouchesNothing ==
    \A p \in Checkers :
        LET f == chk[p]
        IN  f.branch = "nodata"
            => /\ f.pc = "done"
               /\ f.sends = 0 /\ f.fetched = 0 /\ f.edits = 0 /\ f.deletes = 0
               /\ IsStored(f) => Stored(f) = f.streamer_config

\* The fetch fails for an entry that is live with an announcement stored.
C21_Witness ==
    LET f == chk["sched"]
    IN  /\ Finished(f, "nodata") /\ IsStored(f)
        /\ f.streamer_config.is_live
        /\ f.streamer_config.last_message_id # None
        /\ msgs[f.streamer_config.last_message_id].st = "live"
        /\ Stored(f) = f.streamer_config

\* C22: kickalert add replies "not found" only when upstream answered 404:
\* for a streamer that exists upstream, whose fetch may fail with another
\* status, a timeout or a network fault, it never does.
C22_NotFoundOnlyFor404 == \A a \in Adders : adder[a].reply # "not found"

\* C23: a finished check that found no transition (entry live and fetch
\* live with the entry's stream id, or entry not live and fetch not live) has
\* sent and deleted nothing and left the entry as it was; it has edited only
\* with the detailed style and a stored message id; with the minimal style it
\* has called neither fetch_message nor edit; a failed fetch_message or edit
\* ends the check normally.
C23_NoTransitionNoWrite ==
    \A p \in Checkers :
        LET f == chk[p]
            c == f.streamer_config
        IN  (/\ f.pc \in {"done", "raised"} /\ f.branch # "nodata"
             /\ \/ c.is_live /\ f.info.is_live /\ f.info.stream_id = c.last_stream_id
                \/ ~c.is_live /\ ~f.info.is_live)
            => /\ f.pc = "done"
               /\ f.sends = 0 /\ f.deletes = 0
               /\ IsStored(f) => Stored(f) = c
               /\ f.edits > 0 => (f.embed_style = "detailed" /\ c.last_message_id # None)
               /\ f.embed_style = "minimal" => (f.fetched = 0 /\ f.edits = 0)
               /\ ~f.info.is_live => (f.fetched = 0 /\ f.edits = 0)

\* A refresh whose edit failed.
C23_Witness ==
    LET f == chk["sched"]
    IN  /\ Finished(f, "refresh")
        /\ f.info.stream_id = f.streamer_config.last_stream_id
        /\ f.found = 1 /\ f.edits = 1 /\ f.edited = 0
        /\ Stored(f) = f.streamer_config

\* C24: the last_stream_id of every stored entry is None or the stream id of
\* a went-live announcement that was sent for that streamer in that guild
\* (which the most recent such announcement is).
C24_LastStreamWasAnnounced ==
    \A g \in Guilds :
        \A username \in DOMAIN store[g].streamers :
            LET last_stream_id == store[g].streamers[username].last_stream_id
            IN  \/ last_stream_id = None
                \/ <<g, username, last_stream_id>> \in hist.announced

\* C25: the check chooses the entry's channel_id when it is set and the
\* guild's global channel otherwise.  With no channel chosen, or one that
\* get_channel does not resolve, the check returns at once: no send, nothing
\* written, no error.  Otherwise a went-live announcement that is sent is a
\* message in the chosen channel.
C25_ChosenChannel ==
    [][\A p \in Checkers :
         LET f == chk[p]
             own == f.streamer_config.channel_id
             chosen == IF own # None THEN own ELSE f.global_channel_id
         IN  /\ (f.pc = "fetch" /\ chk'[p].pc # "fetch" /\ chk'[p].branch # "nodata")
                => IF chosen = None \/ chosen \notin channels
                   THEN /\ chk'[p].pc = "done"
                        /\ chk'[p].sends = 0 /\ chk'[p].fetched = 0
                        /\ store' = store /\ msgs' = msgs
                   ELSE chk'[p].channel = chosen
             /\ (f.pc = "send" /\ chk'[p].sent = 1)
                => /\ f.branch = "live"
                   /\ msgs'[chk'[p].msg].channel = chosen]_vars

\* An entry whose announcement went to its own channel although a global
\* channel is set; the channel was then deleted, and the next check returned
\* without falling back to the global channel.
C25_Witness ==
    LET f == chk["sched"]
        c == f.streamer_config
    IN  /\ Finished(f, "nochannel") /\ f.info.is_live
        /\ c.channel_id # None /\ c.channel_id \notin channels
        /\ f.global_channel_id \in channels
        /\ c.last_message_id # None
        /\ msgs[c.last_message_id].channel = c.channel_id
        /\ Stored(f) = c

\* C26: as long as the bot has not become ready or the cog's _ready event is
\* not set, the loop takes no step past its two waits: it reads no
\* configuration, starts no check (so fetches nothing) and no message appears
\* or changes.
C26_NothingBeforeReady ==
    [][(~host.bot_ready \/ ~host.ready_event)
       => /\ loop'.pc \in {"unloaded", "waiting"}
          /\ loop'.all_guilds = loop.all_guilds
          /\ chk'["sched"] = IdleFrame
          /\ msgs' = msgs]_vars

\* The cog is loaded and a streamer is stored while the bot is not ready.
C26_Witness ==
    /\ loop.pc = "waiting"
    /\ host.ready_event /\ ~host.bot_ready
    /\ "nova" \in DOMAIN store[1].streamers
    /\ store[1].streamers["nova"].is_live
    /\ chk["sched"] = IdleFrame /\ msgs = <<>>

\* C27: with no add after it, a remove issued while a check of the streamer
\* is under way is final: no later step of the check puts the name back into
\* the guild's streamers.
C27_RemovedStaysRemoved ==
    [][\A g \in Guilds :
         \A username \in DOMAIN store'[g].streamers :
            username \in DOMAIN store[g].streamers]_vars

\* The check sent its announcement, the entry was removed before the save,
\* and the check has finished.
C27_Witness ==
    LET f == chk["sched"]
    IN  /\ Finished(f, "live") /\ f.sent = 1
        /\ msgs[f.msg].st = "live"
        /\ ~IsStored(f)

\* C28: once a confirmed clear of a guild has run (its interval is back at
\* the default) and the check that was under way has finished, the guild's
\* streamers are empty, no add having followed.
C28_ClearIsFinal ==
    (/\ store[1].check_interval = DefaultInterval
     /\ chk["sched"].pc \in {"idle", "done", "raised"})
    => DOMAIN store[1].streamers = {}

\* C29: for a watched streamer that stays live with stream id 1, a went-live
\* announcement for that stream is eventually sent and the entry eventually
\* is live with last_stream_id 1.
C29_EventuallyAnnounced ==
    <>(/\ <<1, "nova", 1>> \in hist.announced
       /\ "nova" \in DOMAIN store[1].streamers
       /\ store[1].streamers["nova"].is_live
       /\ store[1].streamers["nova"].last_stream_id = 1)

====
